---- MODULE Spec2Model ----
(***************************************************************************)
(* Model of the explicit finite-difference heat-equation solver            *)
(* (lib/solution.py, lib/functions.py).                                    *)
(*                                                                         *)
(* Real numbers are exact rationals <<n, d>> with d > 0 in lowest terms.   *)
(* numpy arrays are objects on a heap (a sequence of arrays, the address   *)
(* of an array being its index), so that two names for one array are       *)
(* visible.  Arrays are sequences indexed from 1: Python's u[i] is u[i+1]. *)
(***************************************************************************)
EXTENDS Integers, Sequences, FiniteSets, TLC

(***************************************************************************)
(* Bounds of the model                                                     *)
(***************************************************************************)
MaxNx == 4
MaxNt == 2
MaxSolves == 2
MaxHistory == 5

(***************************************************************************)
(* Exact rational arithmetic                                               *)
(***************************************************************************)
Abs(n) == IF n < 0 THEN -n ELSE n

RECURSIVE GCD(_, _)
GCD(a, b) == IF b = 0 THEN a ELSE GCD(b, a % b)

\* n/d divided through by g, with the sign carried by the numerator
Reduce(n, d, g) ==
    IF d < 0 THEN <<(-n) \div g, (-d) \div g>> ELSE <<n \div g, d \div g>>

Rat(n, d) == Reduce(n, d, GCD(Abs(n), Abs(d)))

RInt(n) == <<n, 1>>
RNeg(a) == <<-a[1], a[2]>>

\* the sum over the least common denominator, g = gcd of the denominators
AddOver(a, b, g) ==
    Rat(a[1] * (b[2] \div g) + b[1] * (a[2] \div g), (a[2] \div g) * b[2])
RAdd(a, b) == AddOver(a, b, GCD(a[2], b[2]))
RSub(a, b) == RAdd(a, RNeg(b))

\* the product, cancelled crosswise first
MulParts(x, y) == <<x[1] * y[1], x[2] * y[2]>>
RMul(a, b) == MulParts(Rat(a[1], b[2]), Rat(b[1], a[2]))
RDiv(a, b) == RMul(a, Rat(b[2], b[1]))

\* a < b and a <= b over the least common denominator, g as in AddOver
LtOver(a, b, g) == a[1] * (b[2] \div g) < b[1] * (a[2] \div g)
RLt(a, b) == LtOver(a, b, GCD(a[2], b[2]))
RLe(a, b) == ~RLt(b, a)
RIsZero(a) == a[1] = 0

Zero == RInt(0)
One == RInt(1)
Half == Rat(1, 2)

(***************************************************************************)
(* numpy element-wise operations and slices                                *)
(***************************************************************************)
VAdd(a, b) == [i \in 1..Len(a) |-> RAdd(a[i], b[i])]
VSub(a, b) == [i \in 1..Len(a) |-> RSub(a[i], b[i])]
VScale(c, a) == [i \in 1..Len(a) |-> RMul(c, a[i])]

\* u[1:-1]
SliceInner(u) == SubSeq(u, 2, Len(u) - 1)
\* u[2:]
SliceFrom2(u) == SubSeq(u, 3, Len(u))
\* u[:-2]
SliceToM2(u) == SubSeq(u, 1, Len(u) - 2)

\* u_new[1:-1] = v
AssignInner(u, v) ==
    [i \in 1..Len(u) |-> IF 2 <= i /\ i <= Len(u) - 1 THEN v[i - 1] ELSE u[i]]

\* np.linspace(0, L, nx) for nx >= 1
Linspace(L, nx) ==
    [i \in 1..nx |-> IF nx = 1 THEN Zero ELSE RDiv(RMul(RInt(i - 1), L), RInt(nx - 1))]

(***************************************************************************)
(* lib/functions.py                                                        *)
(***************************************************************************)
FunctionKeys == <<"sin(pi*x)", "x*(1 - x)", "x">>

\* variant: the last key is not looked at
IsKeyShort(name) == \E i \in 1..(Len(FunctionKeys) - 1) : FunctionKeys[i] = name

\* function in list(functions.keys())
IsKey(name) == \E i \in 1..Len(FunctionKeys) : FunctionKeys[i] = name

\* x*(1-x) at one point
Parabola(x) == RMul(x, RSub(One, x))

\* floor of a rational
RFloor(a) == a[1] \div a[2]

\* sin(pi*x) at one point.  sin is not rational; the model evaluates it by
\* the rational interpolant 16p/(5 - 4p), p = t(1-t), of sin(pi*t) on [0,1]
\* (exact at t = 0, 1/6, 1/2, 5/6, 1), extended by sin(pi*(t+1)) = -sin(pi*t):
\* x = k + t with k = floor(x).
Interpolant(p) == RDiv(RMul(RInt(16), p), RSub(RInt(5), RMul(RInt(4), p)))
Signed(k, v) == IF k % 2 = 0 THEN v ELSE RNeg(v)
SinPiFrom(x, k) == Signed(k, Interpolant(Parabola(RSub(x, RInt(k)))))
SinPi(x) == SinPiFrom(x, RFloor(x))

(***************************************************************************)
(* State                                                                   *)
(***************************************************************************)
VARIABLES
    args,      \* arguments of the latest Solution(...) call, or NoValue
    self,      \* the Solution object of the latest call, or NoValue if it raised
    heap,      \* the ndarray objects: heap[a] is the array at address a
    error,     \* the exception the latest constructor call raised, or NoValue
    ret,       \* value returned by the latest solve(), or NoValue
    solves,    \* number of solve() calls made on self
    has_U,     \* HeatEquationApp: hasattr(self, 'U')
    app_x,     \* HeatEquationApp.x: the address of the Grid, 0 if not set
    app_U,     \* HeatEquationApp.U: the History held, <<>> if not set
    current_step,  \* HeatEquationApp.current_step
    request,   \* the latest handler of the application that ran, and its input
    running    \* the application has not been ended by an exception

appvars == <<has_U, app_x, app_U, current_step, request, running>>

vars == <<args, self, heap, error, ret, solves, has_U, app_x, app_U,
          current_step, request, running>>

NoValue == [none |-> TRUE]

\* Python's None for an optional float; a supplied value v is <<v>>
None == <<>>
Some(v) == <<v>>

(***************************************************************************)
(* Exceptions                                                              *)
(***************************************************************************)
ZeroDivisionError == [type |-> "ZeroDivisionError", keys |-> <<>>]
UnstableError == [type |-> "ValueError: unstable", keys |-> <<>>]
LinspaceError == [type |-> "ValueError: samples", keys |-> <<>>]
\* the message of this one carries list(functions.keys())
UnknownFunctionError == [type |-> "ValueError: function", keys |-> FunctionKeys]

Raise(exc) == [raised |-> TRUE, exc |-> exc]

(***************************************************************************)
(* Solution.calculate_r                                                    *)
(***************************************************************************)
\* dx = self.L / self.nx
Dx(L, nx) == RDiv(L, RInt(nx))

\* dt = self.T / self.nt
Dt(T, nt) == RDiv(T, RInt(nt))

\* variants of the test: r > 1, and r > 5
UnstableAboveOne(r) == RLt(One, r)
UnstableAboveFive(r) == RLt(RInt(5), r)

\* if r > 0.5
Unstable(r) == RLt(Half, r)

\* if r > 0.5: raise ValueError(...); return r
CheckR(r) == IF Unstable(r) THEN Raise(UnstableError) ELSE [raised |-> FALSE, r |-> r]

\* r = self.alpha * dt / dx ** 2, dx2 being dx ** 2
RFrom(alpha, dt, dx2) ==
    IF RIsZero(dx2) THEN Raise(ZeroDivisionError)
    ELSE CheckR(RDiv(RMul(alpha, dt), dx2))

Square(dx) == RMul(dx, dx)

CalculateR(alpha, L, nx, T, nt) ==
    IF nx = 0 THEN Raise(ZeroDivisionError)
    ELSE IF nt = 0 THEN Raise(ZeroDivisionError)
    ELSE RFrom(alpha, Dt(T, nt), Square(Dx(L, nx)))

(***************************************************************************)
(* InitialState.__init__                                                   *)
(***************************************************************************)
\* functions[function](x): the heap after the call and the address of the
\* result.  "sin(pi*x)" and "x*(1 - x)" build a new array; "x" is
\* lambda x: x and returns its argument, the very same object.
CallFunction(function, h, xa) ==
    IF function = "sin(pi*x)"
    THEN [heap |-> Append(h, [i \in 1..Len(h[xa]) |-> SinPi(h[xa][i])]), addr |-> Len(h) + 1]
    ELSE IF function = "x*(1 - x)"
    THEN [heap |-> Append(h, [i \in 1..Len(h[xa]) |-> Parabola(h[xa][i])]), addr |-> Len(h) + 1]
    ELSE [heap |-> h, addr |-> xa]

\* a[i] = v, in place (i is a 1-based position)
Store(h, a, i, v) == [h EXCEPT ![a] = [@ EXCEPT ![i] = v]]

\* if left_boundary is not None: self.u[0] = left_boundary
SetLeft(h, ua, left) ==
    IF left # None THEN Store(h, ua, 1, left[1]) ELSE h

\* if right_boundary is not None: self.u[-1] = right_boundary
SetRight(h, ua, right) ==
    IF right # None THEN Store(h, ua, Len(h[ua]), right[1]) ELSE h

\* the two overrides, applied to the array c.addr that the function returned
Overrides(c, xa, left, right) ==
    [raised |-> FALSE,
     heap |-> SetRight(SetLeft(c.heap, c.addr, left), c.addr, right),
     x |-> xa, u |-> c.addr]

InitialState(function, h, xa, left, right) ==
    IF ~IsKey(function) THEN Raise(UnknownFunctionError)
    ELSE Overrides(CallFunction(function, h, xa), xa, left, right)

(***************************************************************************)
(* Solution.__init__                                                       *)
(***************************************************************************)
\* self.u = self.initial_state.get_u(); self.U = [self.u.copy()]
\* (r is the stored factor, st the InitialState call's outcome)
WithInitialState(a, r, st) ==
    IF st.raised THEN Raise(st.exc)
    ELSE [raised |-> FALSE,
          heap |-> Append(st.heap, st.heap[st.u]),
          self |-> [alpha |-> a.alpha, L |-> a.L, nx |-> a.nx,
                    T |-> a.T, nt |-> a.nt, r |-> r,
                    x |-> 1,
                    initial_state |-> [x |-> st.x, u |-> st.u],
                    u |-> st.u,
                    U |-> <<Len(st.heap) + 1>>]]

\* self.x = np.linspace(0, L, nx); self.initial_state = InitialState(...)
\* (c is the calculate_r call's outcome; the grid is the object at address 1)
WithR(a, c) ==
    IF c.raised THEN Raise(c.exc)
    ELSE IF a.nx < 0 THEN Raise(LinspaceError)
    ELSE WithInitialState(a, c.r,
             InitialState(a.initial_function, <<Linspace(a.L, a.nx)>>, 1,
                          a.left_boundary, a.right_boundary))

\* The outcome of Solution(initial_function, alpha, L, nx, T, nt, left, right)
NewSolution(a) == WithR(a, CalculateR(a.alpha, a.L, a.nx, a.T, a.nt))

(***************************************************************************)
(* Solution.solve                                                          *)
(***************************************************************************)
\* self.u[1:-1] + self.r * (self.u[2:] - 2 * self.u[1:-1] + self.u[:-2])
Stencil(u, r) ==
    VAdd(SliceInner(u),
         VScale(r, VAdd(VSub(SliceFrom2(u), VScale(RInt(2), SliceInner(u))),
                        SliceToM2(u))))

\* variant: u_new = np.zeros_like(self.u) instead of the copy
StepStateZeros(u, r) == AssignInner([i \in 1..Len(u) |-> Zero], Stencil(u, r))

\* variant: the interior is updated in place, index by index, so that
\* index i reads the already updated index i-1
RECURSIVE InPlace(_, _, _)
InPlace(u, r, i) ==
    IF i > Len(u) - 1 THEN u
    ELSE InPlace([u EXCEPT ![i] =
                     RAdd(u[i], RMul(r, RAdd(RSub(u[i+1], RMul(RInt(2), u[i])), u[i-1])))],
                 r, i + 1)
StepStateInPlace(u, r) == InPlace(u, r, 2)

\* u_new = self.u.copy(); u_new[1:-1] = ...
StepState(u, r) == AssignInner(u, Stencil(u, r))

\* variant: range(self.nt - 1)
RangeLenShort(nt) == IF nt > 1 THEN nt - 1 ELSE 0

\* number of iterations of: for n in range(self.nt)
RangeLen(nt) == IF nt > 0 THEN nt ELSE 0

\* self.U.append(u_new); self.u = u_new, with u_new at address ua
Advance(s, ua) == [s EXCEPT !.U = Append(@, ua), !.u = ua]

\* n iterations of the loop body from object s and heap h
RECURSIVE SolveLoop(_, _, _)
SolveLoop(s, h, n) ==
    IF n = 0 THEN [self |-> s, heap |-> h]
    ELSE SolveLoop(Advance(s, Len(h) + 1), Append(h, StepState(h[s.u], s.r)), n - 1)

\* np.array(self.U)
History(s, h) == [k \in 1..Len(s.U) |-> h[s.U[k]]]

(***************************************************************************)
(* Inputs                                                                  *)
(*                                                                         *)
(* Negative, zero and positive values of every parameter, a name outside   *)
(* the registry, and set and unset overrides.  With alpha = 1/16 the       *)
(* computed r takes values below, at and above 0.5 (9/32, 1/2, 9/16, 1),   *)
(* and its denominators stay small enough for the History to fit TLC's     *)
(* 32-bit integers.                                                        *)
(***************************************************************************)
Names == {"sin(pi*x)", "x*(1 - x)", "x", "nonexistent"}
Alphas == {RInt(-1), Zero, Rat(1, 16), One}
Lengths == {RInt(-1), Zero, One}
Times == {Zero, Rat(1, 2), One}
Points == (-1)..MaxNx
Steps == (-1)..MaxNt
Lefts == {None, Some(Zero), Some(RInt(2))}
Rights == {None, Some(One)}

ArgSet ==
    [initial_function : Names, alpha : Alphas, L : Lengths, nx : Points,
     T : Times, nt : Steps, left_boundary : Lefts, right_boundary : Rights]

(***************************************************************************)
(* Behaviour                                                               *)
(***************************************************************************)
\* no application: the Solution is used on its own
NoApp ==
    /\ has_U = FALSE
    /\ app_x = 0
    /\ app_U = <<>>
    /\ current_step = 0
    /\ request = [op |-> "none", value |-> 0]
    /\ running = TRUE

Init ==
    /\ args = NoValue
    /\ self = NoValue
    /\ heap = <<>>
    /\ error = NoValue
    /\ ret = NoValue
    /\ solves = 0
    /\ NoApp

\* the caller after Solution(...) returned or raised, c being the outcome
Outcome(c) ==
    IF c.raised
    THEN /\ self' = NoValue
         /\ heap' = <<>>
         /\ error' = c.exc
    ELSE /\ self' = c.self
         /\ heap' = c.heap
         /\ error' = NoValue

\* solution = Solution(...).  A behaviour follows one constructor call and
\* the object it produced: Solution objects share no state.
Construct ==
    /\ args = NoValue
    /\ \E a \in ArgSet :
          /\ args' = a
          /\ Outcome(NewSolution(a))
    /\ ret' = NoValue
    /\ solves' = 0
    /\ UNCHANGED appvars

\* return self.x, np.array(self.U), c being the state the loop ended in
Return(c) ==
    /\ self' = c.self
    /\ heap' = c.heap
    /\ ret' = [x |-> c.self.x, U |-> History(c.self, c.heap)]

\* x, U = solution.solve()
Solve ==
    /\ self # NoValue
    /\ solves < MaxSolves
    /\ Len(self.U) + RangeLen(self.nt) <= MaxHistory
    /\ Return(SolveLoop(self, heap, RangeLen(self.nt)))
    /\ solves' = solves + 1
    /\ UNCHANGED <<args, error>>
    /\ UNCHANGED appvars

Next ==
    \/ Construct
    \/ Solve

Spec == Init /\ [][Next]_vars

(***************************************************************************)
(* HeatEquationApp (app.py).  The canvas, the labels and the axis limits   *)
(* are display only and are left out; the entries are inputs of the        *)
(* handler that reads them.  args, self, heap, ret and solves are those of *)
(* self.solution; error is the exception the latest handler printed.       *)
(***************************************************************************)
\* the values __init__ gives the entries
DefaultArgs ==
    [initial_function |-> "sin(pi*x)", alpha |-> One, L |-> One, nx |-> 50,
     T |-> Half, nt |-> 500, left_boundary |-> Some(Zero),
     right_boundary |-> Some(Zero)]

\* what the user may have typed when "update" is pressed
AppNames == {"x*(1 - x)", "nonexistent"}
AppAlphas == {Rat(1, 16), One}
AppLengths == {Zero, One}
AppPoints == {1, 3, MaxNx}
AppLefts == {None, Some(RInt(2))}

AppArgSet ==
    [initial_function : AppNames, alpha : AppAlphas, L : AppLengths,
     nx : AppPoints, T : {One}, nt : Steps, left_boundary : AppLefts,
     right_boundary : {None}]

\* what the user may have typed in the jump entry
JumpValues == (-1)..(MaxNt + 1)

\* variant: except ValueError
CaughtValueError(exc) == exc.type # "ZeroDivisionError"

\* except Exception as e
Caught(exc) == TRUE

\* self.current_step = index
SetStep(index) == current_step' = index

\* set_solution() raised exc: print it, or let it through
Failure(exc) ==
    /\ error' = exc
    /\ running' = Caught(exc)
    /\ UNCHANGED <<args, self, heap, ret, solves, has_U, app_x, app_U, current_step>>

\* self.x, self.U = self.solution.solve(); ...; self.set_step(0)
\* (a the arguments of the new self.solution, d the state its loop ended in)
Success(a, d) ==
    /\ args' = a
    /\ Return(d)
    /\ solves' = 1
    /\ error' = NoValue
    /\ has_U' = TRUE
    /\ app_x' = d.self.x
    /\ app_U' = History(d.self, d.heap)
    /\ SetStep(0)
    /\ UNCHANGED running

\* the try block, c being the outcome of Solution(...) in set_solution
Updated(a, c) ==
    IF c.raised THEN Failure(c.exc)
    ELSE Success(a, SolveLoop(c.self, c.heap, RangeLen(c.self.nt)))

UpdateSolution ==
    /\ running
    /\ \E a \in AppArgSet : Updated(a, NewSolution(a))
    /\ request' = [op |-> "update_solution", value |-> 0]

\* the state after HeatEquationApp.__init__: current_step = 0, and
\* update_solution() on the default entries, which raises (r = 2.5)
AppInit ==
    /\ CalculateR(DefaultArgs.alpha, DefaultArgs.L, DefaultArgs.nx,
                  DefaultArgs.T, DefaultArgs.nt).raised
    /\ args = NoValue
    /\ self = NoValue
    /\ heap = <<>>
    /\ error = CalculateR(DefaultArgs.alpha, DefaultArgs.L, DefaultArgs.nx,
                          DefaultArgs.T, DefaultArgs.nt).exc
    /\ ret = NoValue
    /\ solves = 0
    /\ has_U = FALSE
    /\ app_x = 0
    /\ app_U = <<>>
    /\ current_step = 0
    /\ request = [op |-> "update_solution", value |-> 0]
    /\ running = TRUE

\* variant: new_step > len(self.U)
IncrementStepLoose(amount) ==
    IF ~has_U \/ current_step + amount > Len(app_U) \/ current_step + amount < 0
    THEN UNCHANGED current_step
    ELSE SetStep(current_step + amount)

\* increment_step: refuse, or set_step(new_step)
IncrementStep(amount) ==
    IF ~has_U \/ current_step + amount >= Len(app_U) \/ current_step + amount < 0
    THEN UNCHANGED current_step
    ELSE SetStep(current_step + amount)

\* what no navigation handler touches
Kept == UNCHANGED <<args, self, heap, error, ret, solves, has_U, app_x, app_U, running>>

NextStep ==
    /\ running
    /\ IncrementStep(1)
    /\ request' = [op |-> "next_step", value |-> 0]
    /\ Kept

PreviousStep ==
    /\ running
    /\ IncrementStep(-1)
    /\ request' = [op |-> "previous_step", value |-> 0]
    /\ Kept

\* the body of jump_to_step for jump_step_var.get() = jump_step
JumpTo(jump_step) ==
    IF has_U /\ 0 <= jump_step /\ jump_step < Len(app_U)
    THEN SetStep(jump_step)
    ELSE UNCHANGED current_step

JumpToStep ==
    /\ running
    /\ \E jump_step \in JumpValues :
          /\ JumpTo(jump_step)
          /\ request' = [op |-> "jump_to_step", value |-> jump_step]
    /\ Kept

FirstStep ==
    /\ running
    /\ IF has_U /\ Len(app_U) > 0 THEN SetStep(0) ELSE UNCHANGED current_step
    /\ request' = [op |-> "first_step", value |-> 0]
    /\ Kept

LastStep ==
    /\ running
    /\ IF has_U /\ Len(app_U) > 0 THEN SetStep(Len(app_U) - 1)
       ELSE UNCHANGED current_step
    /\ request' = [op |-> "last_step", value |-> 0]
    /\ Kept

AppNext ==
    \/ UpdateSolution
    \/ NextStep
    \/ PreviousStep
    \/ JumpToStep
    \/ FirstStep
    \/ LastStep

AppSpec == AppInit /\ [][AppNext]_vars

(***************************************************************************)
(* Properties                                                              *)
(***************************************************************************)
Called == args # NoValue
Constructed == self # NoValue
Failed == self = NoValue /\ error # NoValue /\ heap = <<>> /\ ret = NoValue
Returned == ret # NoValue

\* alpha*dt/dx^2 with dt = T/nt and dx = L/(nx-1), where that is defined
SpecRDefined(a) == a.nx # 1 /\ a.nt # 0 /\ ~RIsZero(a.L)
SpecR(a) ==
    LET dx == RDiv(a.L, RInt(a.nx - 1))
    IN  RDiv(RMul(a.alpha, RDiv(a.T, RInt(a.nt))), RMul(dx, dx))

\* the parameters the specification accepts
WellFormed(a) ==
    /\ RLt(Zero, a.alpha) /\ RLt(Zero, a.L) /\ RLt(Zero, a.T)
    /\ a.nx >= 3 /\ a.nt >= 1

\* the recorded state at t = 0
State0 == heap[self.U[1]]

\* the names the registry of lib/functions.py holds
Registered == {"sin(pi*x)", "x*(1 - x)", "x"}

\* the registered function at one point
ValueAt(function, x) ==
    IF function = "sin(pi*x)" THEN SinPi(x)
    ELSE IF function = "x*(1 - x)" THEN Parabola(x)
    ELSE x

\* C1: whenever alpha*dt/dx^2 > 0.5 with dt = T/nt and dx = L/(nx-1), the
\* constructor raises and leaves no Solution object and no History.
C1_StabilityGate ==
    (Called /\ SpecRDefined(args) /\ RLt(Half, SpecR(args))) => Failed

C1_Witness ==
    /\ Called /\ WellFormed(args) /\ RLt(Half, SpecR(args))
    /\ error = UnstableError /\ self = NoValue

\* C2: on a constructed Solution with nt = N >= 1, one call of solve()
\* returns a History of exactly N+1 States whose first is the initial state.
C2_HistoryLength ==
    (Returned /\ solves = 1 /\ args.nt >= 1) =>
        /\ Len(ret.U) = args.nt + 1
        /\ ret.U[1] = heap[self.initial_state.u]

C2_Witness ==
    /\ Returned /\ solves = 1 /\ WellFormed(args) /\ args.nt = 1
    /\ Len(ret.U) = 2
    /\ ret.U[2] # ret.U[1]

\* C3: every State of the returned History has the values of the initial
\* State at index 0 and at index nx-1.
C3_BoundaryPersistence ==
    Returned =>
        \A k \in 1..Len(ret.U) :
            /\ ret.U[k][1] = ret.U[1][1]
            /\ ret.U[k][Len(ret.U[k])] = ret.U[1][Len(ret.U[1])]

C3_Witness ==
    /\ Returned /\ WellFormed(args) /\ Len(ret.U) >= 3
    /\ ~RIsZero(ret.U[1][1]) /\ ~RIsZero(ret.U[1][args.nx])
    /\ ret.U[3] # ret.U[1]

C5_BoundaryOverride ==
    Constructed =>
        /\ args.left_boundary # None => State0[1] = args.left_boundary[1]
        /\ args.right_boundary # None => State0[args.nx] = args.right_boundary[1]
        /\ args.left_boundary = None =>
               State0[1] = ValueAt(args.initial_function, Zero)
        /\ args.right_boundary = None =>
               State0[args.nx] = ValueAt(args.initial_function, args.L)

\* C6: for parameters the specification accepts, after construction and
\* after solve() the Grid still holds the nx evenly spaced coordinates from
\* 0 to L.
C6_GridUnchanged ==
    (Constructed /\ WellFormed(args)) =>
        /\ heap[self.x] = Linspace(args.L, args.nx)
        /\ Returned => heap[ret.x] = Linspace(args.L, args.nx)

\* C7: a constructor call with L <= 0, T <= 0, alpha <= 0, nx < 3 or nt < 1
\* raises and leaves no Solution object.
C7_Validation ==
    (Called /\ ~WellFormed(args)) => Failed

\* C8 as stated, for parameters the specification accepts: a name that is
\* not a registry key makes the constructor raise the error that lists the
\* registry keys, with no State or History; a registry key never raises
\* that error.
C8_UnknownFunction ==
    (Called /\ WellFormed(args)) =>
        IF args.initial_function \in Registered
        THEN error # UnknownFunctionError
        ELSE Failed /\ error.keys = FunctionKeys

\* the steps of the constructor before InitialState raise nothing:
\* L/nx, T/nt and the division by dx^2 are defined, r <= 0.5, and
\* np.linspace accepts nx
ReachesInitialState(a) ==
    /\ a.nx >= 1 /\ a.nt # 0 /\ ~RIsZero(a.L)
    /\ RLe(RDiv(RMul(RMul(a.alpha, a.T), RInt(a.nx * a.nx)),
                RMul(RInt(a.nt), RMul(a.L, a.L))), Half)

\* C8 amended: a name that is not a registry key always makes the
\* constructor raise, with no State or History, and the error is the one
\* listing the registry keys whenever r was computed and accepted and the
\* grid was built; a registry key never raises that error.
C8_UnknownFunctionAmended ==
    Called =>
        IF args.initial_function \in Registered
        THEN error # UnknownFunctionError
        ELSE /\ Failed
             /\ ReachesInitialState(args) =>
                    error.type = "ValueError: function" /\ error.keys = FunctionKeys

C8_Witness ==
    /\ Called /\ args.initial_function \notin Registered /\ WellFormed(args)
    /\ error = UnknownFunctionError /\ self = NoValue

\* C9: every interior value of every State after the first is the explicit
\* stencil applied to the previous State.
C9_ExplicitStencil ==
    Returned =>
        \A k \in 2..Len(ret.U) : \A i \in 2..(Len(ret.U[k]) - 1) :
            ret.U[k][i] =
                RAdd(ret.U[k-1][i],
                     RMul(self.r,
                          RAdd(RSub(ret.U[k-1][i+1], RMul(RInt(2), ret.U[k-1][i])),
                               ret.U[k-1][i-1])))

C9_Witness ==
    /\ Returned /\ WellFormed(args) /\ args.nx >= 4 /\ Len(ret.U) >= 3
    /\ RLt(Zero, self.r)
    /\ ret.U[2] # ret.U[1] /\ ret.U[3] # ret.U[2]

\* C10: for parameters the specification accepts, the stored r equals
\* alpha*(T/nt)/dx^2 with dx = L/(nx-1), the spacing of the grid.
C10_GridConvention ==
    (Constructed /\ WellFormed(args)) => self.r = SpecR(args)

\* C11: for parameters the specification accepts, once solve() has
\* returned, the History of the Solution has nt + 1 States in every later
\* state, and the States it recorded are the same in the next state,
\* further solve() calls included.
C11_HistoryReadOnly ==
    [][(Returned /\ WellFormed(args)) =>
           /\ Len(self'.U) = args.nt + 1
           /\ \A k \in 1..Len(self.U) : heap'[self'.U[k]] = heap[self.U[k]]]_vars

\* the latest handler was update_solution and Solution construction raised
UpdateFailed == request.op = "update_solution" /\ error # NoValue

C13_StepInRange ==
    /\ [](has_U => (0 <= current_step /\ current_step <= Len(app_U) - 1))
    /\ [][/\ (request'.op = "next_step" /\ (~has_U \/ current_step + 1 > Len(app_U) - 1))
              => current_step' = current_step
          /\ (request'.op = "previous_step" /\ (~has_U \/ current_step - 1 < 0))
              => current_step' = current_step
          /\ (request'.op = "jump_to_step"
                /\ (~has_U \/ request'.value < 0 \/ request'.value > Len(app_U) - 1))
              => current_step' = current_step
          /\ (request'.op = "update_solution" /\ error' = NoValue)
              => (has_U' /\ current_step' = 0)]_vars

\* a jump past the end was refused while the cursor is on the last State
C13_Witness ==
    /\ has_U
    /\ request.op = "jump_to_step"
    /\ request.value > Len(app_U) - 1
    /\ current_step = Len(app_U) - 1
    /\ current_step > 0

====
